---------------------------- MODULE Spec2Model ----------------------------
(***************************************************************************)
(* Model of the word game "Target UA" (src/target_ua.py): the dictionary   *)
(* loader get_words, the word checker check_user_words and the round that  *)
(* main plays with them.                                                   *)
(*                                                                         *)
(* A Python str is modelled as a sequence of one-character strings, so     *)
(* that rstrip, lower, split, join, the substring test `in`, len and       *)
(* indexing are computed on characters as the code computes them.          *)
(***************************************************************************)
EXTENDS Naturals, Sequences, FiniteSets, TLC

VARIABLES
    entry,          \* the function that was called: "main", "get_words", "check_user_words"
    pc,             \* where the call is: "get_words", "input", "check", "done", "IndexError"
    letters,        \* the letters argument (the game grid)
    language_part,  \* the part of speech asked for
    file,           \* the lines of the dictionary file not yet read
    line,           \* get_words: the loop variable
    all_words,      \* get_words: the list of (word, part of speech) built so far
    dict_of_words,  \* check_user_words: the list of pairs it is given
    user_words,     \* check_user_words: the words the user entered
    correct_words,  \* check_user_words: first element of the result
    more_words      \* check_user_words: second element of the result

vars == <<entry, pc, letters, language_part, file, line, all_words,
          dict_of_words, user_words, correct_words, more_words>>

(***************************************************************************)
(* Bounds of the model.                                                    *)
(***************************************************************************)
MaxTokens == 2      \* annotation tokens on a dictionary line
MaxLines == 2       \* lines of the dictionary file in a round
MaxDict == 3        \* pairs handed to check_user_words
MaxUserWords == 2   \* words the user enters

(***************************************************************************)
(* Strings.                                                                *)
(***************************************************************************)
SeqsUpTo(S, n) == UNION {[1..k -> S] : k \in 0..n}

Range(s) == {s[i] : i \in 1..Len(s)}

NoDuplicates(s) == \A i, j \in 1..Len(s) : i # j => s[i] # s[j]

\* str.__contains__: sub occurs in s as a contiguous run of characters
Contains(s, sub) ==
    \E i \in 0..Len(s) :
        /\ i + Len(sub) <= Len(s)
        /\ SubSeq(s, i + 1, i + Len(sub)) = sub

Whitespace == {" ", "\n", "\t"}

\* str.rstrip(): drops the trailing whitespace characters
RECURSIVE RStrip(_)
RStrip(s) ==
    IF s # <<>> /\ s[Len(s)] \in Whitespace
    THEN RStrip(SubSeq(s, 1, Len(s) - 1))
    ELSE s

UpperToLower == [A |-> "a", B |-> "b", N |-> "n", X |-> "x"]

\* str.lower() on the characters of the model
Lower(s) ==
    [i \in 1..Len(s) |->
        IF s[i] \in DOMAIN UpperToLower THEN UpperToLower[s[i]] ELSE s[i]]

\* str.split(' '): cuts at every single space, keeping empty pieces
RECURSIVE Split(_)
Split(s) ==
    IF \E i \in 1..Len(s) : s[i] = " "
    THEN LET i == CHOOSE k \in 1..Len(s) :
                      /\ s[k] = " "
                      /\ \A m \in 1..(k - 1) : s[m] # " "
         IN  <<SubSeq(s, 1, i - 1)>> \o Split(SubSeq(s, i + 1, Len(s)))
    ELSE <<s>>

\* " ".join(pieces)
RECURSIVE Join(_)
Join(pieces) ==
    IF pieces = <<>> THEN <<>>
    ELSE IF Len(pieces) = 1 THEN pieces[1]
    ELSE pieces[1] \o <<" ">> \o Join(Tail(pieces))


(***************************************************************************)
(* get_words                                                               *)
(***************************************************************************)
noun == <<"n", "o", "u", "n">>
verb == <<"v", "e", "r", "b">>
adjective == <<"a", "d", "j", "e", "c", "t", "i", "v", "e">>
adverb == <<"a", "d", "v", "e", "r", "b">>

language_parts_sorted ==
    << [marker |-> <<"/", "n">>,           part |-> noun],
       [marker |-> <<"/", "v">>,           part |-> verb],
       [marker |-> <<"a", "d", "j">>,      part |-> adjective],
       [marker |-> <<"a", "d", "v">>,      part |-> adverb],
       [marker |-> <<"n">>,                part |-> noun],
       [marker |-> <<"n", "o", "u", "n">>, part |-> noun],
       [marker |-> <<"v">>,                part |-> verb] >>

\* the dict language_parts, in the order its keys are iterated (insertion order)
language_parts ==
    << [marker |-> <<"/", "n">>,           part |-> noun],
       [marker |-> <<"/", "v">>,           part |-> verb],
       [marker |-> <<"n", "o", "u", "n">>, part |-> noun],
       [marker |-> <<"a", "d", "j">>,      part |-> adjective],
       [marker |-> <<"a", "d", "v">>,      part |-> adverb],
       [marker |-> <<"n">>,                part |-> noun],
       [marker |-> <<"v">>,                part |-> verb] >>

bad_types == << <<"i", "n", "t", "j">>, <<"n", "o", "n", "i", "n", "f", "l">> >>

MaxWordLen == 5

AcceptsUpToSix(word, ls) ==
    (Len(word) <= MaxWordLen + 1) /\ (Len(word) > 0) /\ (word[1] \in ls)

AcceptsAnyLetter(word, ls) ==
    (Len(word) <= MaxWordLen) /\ (Len(word) > 0)

\* the filter on the head token: short, not empty, starts with one of the letters
Accepts(word, ls) ==
    (Len(word) <= MaxWordLen) /\ (Len(word) > 0) /\ (word[1] \in ls)

\* " ".join(i for i in word_property if i)
WordProperty(tokens) == Join(SelectSeq(tokens, LAMBDA t : t # <<>>))

IsBadTypeByToken(tokens) ==
    \E b \in 1..Len(bad_types) : \E t \in 1..Len(tokens) : tokens[t] = bad_types[b]

\* any(bad_part in word_property for bad_part in bad_types), on the joined tokens
IsBadType(tokens) ==
    \E b \in 1..Len(bad_types) : Contains(WordProperty(tokens), bad_types[b])

\* the for loop over language_parts.keys(), from key i on: the first key that
\* occurs in word_property replaces it and ends the loop
RECURSIVE ClassifyFrom(_, _)
ClassifyFrom(word_property, i) ==
    IF i > Len(language_parts) THEN word_property
    ELSE IF Contains(word_property, language_parts[i].marker)
         THEN language_parts[i].part
         ELSE ClassifyFrom(word_property, i + 1)

Classify(word_property) == ClassifyFrom(word_property, 1)

\* one iteration of the loop over the lines of the file
LoopBody(acc, ln, ls) ==
    LET pieces == Split(Lower(RStrip(ln)))
        word == Head(pieces)
        tokens == Tail(pieces)
    IN  IF Accepts(word, ls) /\ ~IsBadType(tokens)
        THEN Append(acc, <<word, Classify(WordProperty(tokens))>>)
        ELSE acc

ReadLine ==
    /\ pc = "get_words"
    /\ file # <<>>
    /\ line' = Head(file)
    /\ file' = Tail(file)
    /\ all_words' = LoopBody(all_words, Head(file), letters)
    /\ UNCHANGED <<entry, pc, letters, language_part, dict_of_words,
                   user_words, correct_words, more_words>>

\* return all_words: to main (which hands it on as the dictionary) or to the caller
ReturnWords ==
    /\ pc = "get_words"
    /\ file = <<>>
    /\ IF entry = "main"
       THEN pc' = "input" /\ dict_of_words' = all_words
       ELSE pc' = "done" /\ UNCHANGED dict_of_words
    /\ UNCHANGED <<entry, letters, language_part, file, line, all_words,
                   user_words, correct_words, more_words>>

(***************************************************************************)
(* check_user_words                                                        *)
(***************************************************************************)
\* A dict: its keys in insertion order, and the value of each key.
EmptyDict == [keys |-> <<>>, val |-> <<>>]

DictSetDefault(d, k, v) ==
    IF k \in Range(d.keys)
    THEN d
    ELSE [keys |-> Append(d.keys, k), val |-> Append(d.val, v)]

\* d[k] = v: a new key goes last, a known key keeps its place and gets the value
DictSet(d, k, v) ==
    IF k \in Range(d.keys)
    THEN [d EXCEPT !.val = [i \in 1..Len(d.keys) |->
                                IF d.keys[i] = k THEN v ELSE d.val[i]]]
    ELSE [keys |-> Append(d.keys, k), val |-> Append(d.val, v)]

\* dict(pairs): the pairs are set one after the other
RECURSIVE DictFrom(_, _)
DictFrom(d, pairs) ==
    IF pairs = <<>> THEN d
    ELSE DictFrom(DictSet(d, pairs[1][1], pairs[1][2]), Tail(pairs))

\* d.get(k) == v: a missing key gives None, which equals no string
DictGetIs(d, k, v) ==
    \E i \in 1..Len(d.keys) : d.keys[i] = k /\ d.val[i] = v

CorrectWordsOnce(d, words, part) ==
    LET keep == {i \in 1..Len(words) :
                    /\ DictGetIs(d, words[i], part)
                    /\ \A j \in 1..(i - 1) : words[j] # words[i]}
        F[i \in 0..Len(words)] ==
            IF i = 0 THEN <<>>
            ELSE IF i \in keep THEN Append(F[i - 1], words[i]) ELSE F[i - 1]
    IN  F[Len(words)]

\* the loop over user_words: every occurrence the dict maps to part is appended
RECURSIVE CorrectWords(_, _, _)
CorrectWords(d, words, part) ==
    IF words = <<>> THEN <<>>
    ELSE IF DictGetIs(d, Head(words), part)
         THEN <<Head(words)>> \o CorrectWords(d, Tail(words), part)
         ELSE CorrectWords(d, Tail(words), part)

FirstLetterFailsAtOne(d, correct) ==
    \E i \in 1..Len(d.keys) :
        /\ d.keys[i] \notin Range(correct)
        /\ Len(d.keys[i]) < 2

\* word[0] of the comprehension is evaluated for every key that is not in
\* correct_words, and raises IndexError when that key is the empty string
FirstLetterFails(d, correct) ==
    \E i \in 1..Len(d.keys) :
        /\ d.keys[i] \notin Range(correct)
        /\ Len(d.keys[i]) < 1

MoreWordsAnyLetter(d, correct, part, ls) ==
    LET keep(i) == /\ d.keys[i] \notin Range(correct)
                   /\ d.val[i] = part
        F[i \in 0..Len(d.keys)] ==
            IF i = 0 THEN <<>>
            ELSE IF keep(i) THEN Append(F[i - 1], d.keys[i]) ELSE F[i - 1]
    IN  F[Len(d.keys)]

MoreWordsAnyPart(d, correct, part, ls) ==
    LET keep(i) == /\ d.keys[i] \notin Range(correct)
                   /\ d.keys[i][1] \in ls
        F[i \in 0..Len(d.keys)] ==
            IF i = 0 THEN <<>>
            ELSE IF keep(i) THEN Append(F[i - 1], d.keys[i]) ELSE F[i - 1]
    IN  F[Len(d.keys)]

\* the comprehension over the keys of the dict, in their order
MoreWords(d, correct, part, ls) ==
    LET keep(i) == /\ d.keys[i] \notin Range(correct)
                   /\ d.keys[i][1] \in ls
                   /\ d.val[i] = part
        F[i \in 0..Len(d.keys)] ==
            IF i = 0 THEN <<>>
            ELSE IF keep(i) THEN Append(F[i - 1], d.keys[i]) ELSE F[i - 1]
    IN  F[Len(d.keys)]

CheckUserWords ==
    /\ pc = "check"
    /\ LET dict_of_words_dict == DictFrom(EmptyDict, dict_of_words)
           correct == CorrectWords(dict_of_words_dict, user_words, language_part)
       IN  /\ correct_words' = correct
           /\ IF FirstLetterFails(dict_of_words_dict, correct)
              THEN pc' = "IndexError" /\ UNCHANGED more_words
              ELSE /\ pc' = "done"
                   /\ more_words' = MoreWords(dict_of_words_dict, correct,
                                              language_part, letters)
    /\ UNCHANGED <<entry, letters, language_part, file, line, all_words,
                   dict_of_words, user_words>>

(***************************************************************************)
(* main and get_user_words                                                 *)
(***************************************************************************)
\* ["noun", "verb", "adjective", "adverb"], of which main picks one
PartsOfSpeech == {noun, verb, adjective, adverb}

\* the alphabet generate_grid draws from, cut down to two letters
Alphabet == {"a", "b"}

\* the grids generate_grid can return: letters of the alphabet, at least one
Grids == (SUBSET Alphabet) \ {{}}

av == <<"a", "v">>
bn == <<"b", "n">>
abcde == <<"a", "b", "c", "d", "e">>
abcdef == <<"a", "b", "c", "d", "e", "f">>

\* list(set(words_input.split())): words without empty ones and without repeats
InputWordLists ==
    {s \in SeqsUpTo({av, bn, abcdef}, MaxUserWords) : NoDuplicates(s)}

GetUserWords ==
    /\ pc = "input"
    /\ \E words \in InputWordLists : user_words' = words
    /\ pc' = "check"
    /\ UNCHANGED <<entry, letters, language_part, file, line, all_words,
                   dict_of_words, correct_words, more_words>>

(***************************************************************************)
(* The dictionary files and the arguments the calls are given.             *)
(***************************************************************************)
RECURSIVE SpacedTokens(_)
SpacedTokens(tokens) ==
    IF tokens = <<>> THEN <<>>
    ELSE <<" ">> \o Head(tokens) \o SpacedTokens(Tail(tokens))

\* a line of the file: the word, then its tokens after a space each, then the end
MakeLine(word, tokens, ending) == word \o SpacedTokens(tokens) \o ending

HeadWords == {<<>>, av, <<"A", "v">>, bn, abcde, abcdef}

Tokens ==
    { <<"/", "n">>, <<"/", "v">>, noun, <<"a", "d", "j">>, <<"a", "d", "v">>,
      <<"N">>, <<"v">>, <<"x", "i", "n", "t", "j">>,
      <<"n", "o", "n", "i", "n", "f", "l">>, <<"x">>, <<>> }

LineEnds == { <<>>, <<"\n">>, <<" ", "\t", "\n">> }

Lines ==
    {MakeLine(w, t, e) : w \in HeadWords, t \in SeqsUpTo(Tokens, MaxTokens),
                         e \in LineEnds}

RoundLines ==
    {MakeLine(w, <<t>>, <<"\n">>) : w \in {av, bn, abcdef}, t \in {noun, <<"v">>}}

CheckWords == {<<>>, av, <<"b">>}

CheckPairs == {<<w, c>> : w \in CheckWords, c \in {noun, verb}}

\* a round of the game, from main
Init ==
    /\ entry = "main"
    /\ pc = "get_words"
    /\ letters \in Grids
    /\ language_part \in PartsOfSpeech
    /\ file \in SeqsUpTo(RoundLines, MaxLines)
    /\ line = <<>>
    /\ all_words = <<>>
    /\ dict_of_words = <<>>
    /\ user_words = <<>>
    /\ correct_words = <<>>
    /\ more_words = <<>>

Next == ReadLine \/ ReturnWords \/ GetUserWords \/ CheckUserWords

Spec == Init /\ [][Next]_vars

\* a call of get_words on a file of one line
InitGetWords ==
    /\ entry = "get_words"
    /\ pc = "get_words"
    /\ letters \in SUBSET Alphabet
    /\ language_part = noun
    /\ file \in {<<l>> : l \in Lines}
    /\ line = <<>>
    /\ all_words = <<>>
    /\ dict_of_words = <<>>
    /\ user_words = <<>>
    /\ correct_words = <<>>
    /\ more_words = <<>>

NextGetWords == ReadLine \/ ReturnWords

SpecGetWords == InitGetWords /\ [][NextGetWords]_vars

\* a call of check_user_words on any list of pairs
InitCheck ==
    /\ entry = "check_user_words"
    /\ pc = "check"
    /\ letters \in Grids
    /\ language_part \in PartsOfSpeech
    /\ file = <<>>
    /\ line = <<>>
    /\ all_words = <<>>
    /\ dict_of_words \in SeqsUpTo(CheckPairs, MaxDict)
    /\ user_words \in SeqsUpTo(CheckWords, MaxUserWords)
    /\ correct_words = <<>>
    /\ more_words = <<>>

NextCheck == CheckUserWords

SpecCheck == InitCheck /\ [][NextCheck]_vars

(***************************************************************************)
(* What the properties below are stated with: the dictionary as the list   *)
(* of pairs it was given as, and the line that was read as text.           *)
(***************************************************************************)
\* the last pair of pairs with word w has classification c
LastClassIs(pairs, w, c) ==
    \E i \in 1..Len(pairs) :
        /\ pairs[i][1] = w
        /\ pairs[i][2] = c
        /\ \A j \in (i + 1)..Len(pairs) : pairs[j][1] # w

\* the place of the first pair of pairs with word w
FirstIndex(pairs, w) ==
    CHOOSE i \in 1..Len(pairs) :
        /\ pairs[i][1] = w
        /\ \A j \in 1..(i - 1) : pairs[j][1] # w

DictWords(pairs) == {pairs[i][1] : i \in 1..Len(pairs)}

StartsWithLetter(w, ls) == w # <<>> /\ w[1] \in ls

IsSubsequence(c, u) ==
    \E f \in [1..Len(c) -> 1..Len(u)] :
        /\ \A i \in 1..Len(c) : u[f[i]] = c[i]
        /\ \A i, j \in 1..Len(c) : i < j => f[i] < f[j]

\* the head word and the annotation string of the line get_words has read
LineWord == Head(Split(Lower(RStrip(line))))

LineAnnotation == WordProperty(Tail(Split(Lower(RStrip(line)))))

LineWasRead == entry = "get_words" /\ file = <<>>

\* the markers in the priority order of the specification
MarkerOrder ==
    << <<"/", "n">>, <<"/", "v">>, <<"n", "o", "u", "n">>, <<"a", "d", "j">>,
       <<"a", "d", "v">>, <<"n">>, <<"v">> >>

MarkerCategory == <<noun, verb, noun, adjective, adverb, noun, verb>>

(***************************************************************************)
(* Properties of check_user_words, under SpecCheck.                        *)
(***************************************************************************)
\* C1: in a returned verdict, correct is a subsequence of userWords, every word
\* of correct is classified as targetPart by the dictionary, no word of missed
\* is in correct, and every word of missed starts with one of the letters and
\* is classified as targetPart.
C1_Partition ==
    pc = "done" =>
        /\ IsSubsequence(correct_words, user_words)
        /\ \A i \in 1..Len(correct_words) :
               LastClassIs(dict_of_words, correct_words[i], language_part)
        /\ \A j \in 1..Len(more_words) :
               /\ more_words[j] \notin Range(correct_words)
               /\ StartsWithLetter(more_words[j], letters)
               /\ LastClassIs(dict_of_words, more_words[j], language_part)

C1_Witness ==
    /\ pc = "done"
    /\ correct_words # <<>>
    /\ more_words # <<>>
    /\ Len(correct_words) < Len(user_words)
    /\ \E w \in DictWords(dict_of_words) : StartsWithLetter(w, Alphabet \ letters)

\* C2 as claimed: when userWords has no duplicates, the words of correct and
\* missed together are exactly the dictionary words classified as targetPart
\* whose first letter is one of the letters.
C2_Completeness ==
    (pc = "done" /\ NoDuplicates(user_words)) =>
        Range(correct_words) \cup Range(more_words) =
            {w \in DictWords(dict_of_words) :
                /\ LastClassIs(dict_of_words, w, language_part)
                /\ StartsWithLetter(w, letters)}

\* C2 amended: when userWords has no duplicates, the words of correct and missed
\* together are exactly the dictionary words classified as targetPart that
\* start with one of the letters or were entered by the user.
C2_CompletenessWithEntered ==
    (pc = "done" /\ NoDuplicates(user_words)) =>
        Range(correct_words) \cup Range(more_words) =
            {w \in DictWords(dict_of_words) :
                /\ LastClassIs(dict_of_words, w, language_part)
                /\ (StartsWithLetter(w, letters) \/ w \in Range(user_words))}

C2_Witness ==
    /\ pc = "done"
    /\ NoDuplicates(user_words)
    /\ more_words # <<>>
    /\ \E i \in 1..Len(correct_words) :
           /\ correct_words[i] # <<>>
           /\ correct_words[i][1] \notin letters

\* C7: correct is userWords with exactly the occurrences kept whose word the
\* dictionary maps to targetPart, in input order and with multiplicity, and
\* with no test of the letters.
C7_CorrectIsFilter ==
    pc = "done" =>
        correct_words =
            SelectSeq(user_words,
                      LAMBDA w : LastClassIs(dict_of_words, w, language_part))

C7_Witness ==
    /\ pc = "done"
    /\ Len(correct_words) = 2
    /\ correct_words[1] = correct_words[2]
    /\ correct_words[1] # <<>>
    /\ correct_words[1][1] \notin letters

\* C8 as claimed: the call never raises, whatever the dictionary is.
C8_NeverRaises == pc # "IndexError"

\* C8 amended: when no word of the dictionary is the empty string (as in every
\* dictionary get_words returns), the call does not raise and returns a verdict.
C8_NeverRaisesOnNonEmptyWords ==
    (<<>> \notin DictWords(dict_of_words)) =>
        pc \in {"check", "done"}

C8_Witness ==
    /\ pc = "done"
    /\ dict_of_words # <<>>
    /\ <<>> \notin DictWords(dict_of_words)
    /\ <<>> \in Range(user_words)

\* C9: a word is judged, for correct and for missed, by the classification of
\* its last occurrence in the dictionary; missed holds each word at most once,
\* and its words stand in the order of their first occurrences in the dictionary.
C9_LastOccurrenceWins ==
    pc = "done" =>
        /\ \A i \in 1..Len(user_words) :
               user_words[i] \in Range(correct_words)
                   <=> LastClassIs(dict_of_words, user_words[i], language_part)
        /\ \A w \in DictWords(dict_of_words) :
               w \in Range(more_words)
                   <=> /\ LastClassIs(dict_of_words, w, language_part)
                       /\ w \notin Range(correct_words)
                       /\ StartsWithLetter(w, letters)
        /\ NoDuplicates(more_words)
        /\ \A i, j \in 1..Len(more_words) :
               i < j => FirstIndex(dict_of_words, more_words[i])
                            < FirstIndex(dict_of_words, more_words[j])

C9_Witness ==
    /\ pc = "done"
    /\ Len(more_words) = 2
    /\ \E i, j, k \in 1..Len(dict_of_words) :
           /\ i < j /\ j < k
           /\ dict_of_words[i][1] = more_words[1]
           /\ dict_of_words[k][1] = more_words[1]
           /\ dict_of_words[i][2] # dict_of_words[k][2]
           /\ dict_of_words[j][1] = more_words[2]

(***************************************************************************)
(* Properties of get_words, under SpecGetWords.                            *)
(***************************************************************************)
\* C3: every entry get_words returns has a word of 1 to 5 characters whose
\* first character is one of the letters; a line whose head word has 6 or more
\* characters gives no entry.
C3_LengthAndLetter ==
    /\ \A i \in 1..Len(all_words) :
           /\ 1 <= Len(all_words[i][1])
           /\ Len(all_words[i][1]) <= 5
           /\ all_words[i][1][1] \in letters
    /\ (LineWasRead /\ Len(LineWord) >= 6) => all_words = <<>>

C3_Witness ==
    /\ LineWasRead
    /\ Len(all_words) = 1
    /\ Len(all_words[1][1]) = 5
    /\ letters # Alphabet

\* C4: the classification of an accepted line is the category of the first
\* marker, in the order "/n", "/v", "noun", "adj", "adv", "n", "v", that occurs
\* in the line's annotation string, and the annotation string itself when no
\* marker occurs in it.
C4_FirstMarkerWins ==
    (LineWasRead /\ all_words # <<>>) =>
        LET hits == {i \in 1..Len(MarkerOrder) :
                        Contains(LineAnnotation, MarkerOrder[i])}
        IN  IF hits = {}
            THEN all_words[1][2] = LineAnnotation
            ELSE \E i \in hits :
                     /\ \A j \in hits : i <= j
                     /\ all_words[1][2] = MarkerCategory[i]

C4_Witness ==
    /\ LineWasRead
    /\ all_words # <<>>
    /\ Contains(LineAnnotation, <<"v", " ">>)
    /\ Contains(LineAnnotation, <<"a", "d", "j">>)
    /\ all_words[1][2] = adjective

\* C5: every entry get_words returns has one of the four parts of speech noun,
\* verb, adjective, adverb as its classification.
C5_FourPartsOnly ==
    \A i \in 1..Len(all_words) : all_words[i][2] \in PartsOfSpeech

\* C6: a line whose annotation string contains "intj" or "noninfl" anywhere
\* gives no entry, whatever its word and its other tokens are.
C6_BadTypesGiveNoEntry ==
    (/\ LineWasRead
     /\ \/ Contains(LineAnnotation, <<"i", "n", "t", "j">>)
        \/ Contains(LineAnnotation, <<"n", "o", "n", "i", "n", "f", "l">>))
        => all_words = <<>>

C6_Witness ==
    /\ LineWasRead
    /\ all_words = <<>>
    /\ Len(LineWord) \in 1..5
    /\ LineWord[1] \in letters
    /\ Contains(LineAnnotation, <<"x", "i", "n", "t", "j">>)
    /\ Contains(LineAnnotation, noun)
    /\ ~Contains(LineAnnotation, <<"n", "o", "n", "i", "n", "f", "l">>)

(***************************************************************************)
(* Property of a round, under Spec.                                        *)
(***************************************************************************)
\* C10: in a round, where the dictionary is what get_words returned for the
\* letters of the round, every word of correct has 1 to 5 characters and
\* starts with one of the letters.
C10_RoundCorrectWords ==
    (entry = "main" /\ pc = "done") =>
        \A i \in 1..Len(correct_words) :
            /\ 1 <= Len(correct_words[i])
            /\ Len(correct_words[i]) <= 5
            /\ correct_words[i][1] \in letters

C10_Witness ==
    /\ entry = "main"
    /\ pc = "done"
    /\ correct_words # <<>>
    /\ \E i \in 1..Len(user_words) :
           /\ user_words[i][1] \notin letters
           /\ \E j \in 1..(Len(line) - Len(user_words[i])) :
                  SubSeq(line, 1, j) = user_words[i] \o <<" ">>

=============================================================================
